---- MODULE Spec2Model ----
(***************************************************************************)
(* The scheduled-task engine of backend/services/task_scheduler.py:        *)
(* ScheduleCalculator, TaskStorage, TaskExecutor and TaskScheduler, with   *)
(* the asyncio poll loop and the run_task_now calls of the request         *)
(* handlers interleaving at their await points.                            *)
(*                                                                         *)
(* Time is counted in seconds.  A Python value that is a string or None    *)
(* is a record [kind, v]: kind says what the text is (an integer literal,  *)
(* an ISO-8601 timestamp, a cron expression, anything else) and v is the   *)
(* number it denotes; int() and datetime.fromisoformat() succeed only on   *)
(* the kind they parse and raise ValueError on every other.                *)
(***************************************************************************)
EXTENDS Integers, Sequences, FiniteSets, TLC

VARIABLES now, store, results, running, loop, manual, executions

vars == <<now, store, results, running, loop, manual, executions>>

(* ------------------------------ bounds --------------------------------- *)

\* A behaviour holds at most this many events: advances of the clock and
\* calls of execute_task, taken together.
MaxEvents == 3

(* ------------------------- program constants --------------------------- *)

POLL_INTERVAL_SECONDS == 60

HAS_CRONITER == TRUE

\* The clock advances one poll interval at a time; the operations made at
\* one clock value come in every order.
ClockStep == POLL_INTERVAL_SECONDS

TaskIds == {"t1"}

Callers == {"c1"}

(* --------------------------- Python values ----------------------------- *)

None == [kind |-> "none", v |-> 0]

\* the text of an integer literal, str(n)
IntStr(n) == [kind |-> "int", v |-> n]

\* the text datetime.isoformat() produces for the instant t
IsoStr(t) == [kind |-> "iso", v |-> t]

\* the cron expression "*/m * * * *" (m = 1 is "* * * * *")
CronStr(m) == [kind |-> "cron", v |-> m]

\* text that is none of the above
Junk == [kind |-> "junk", v |-> 0]

\* a datetime object
DateTime(t) == [kind |-> "datetime", v |-> t]

\* int(s) raises ValueError
int_raises(s) == s.kind # "int"

\* int(s), for a text int() accepts
int(s) == s.v

\* datetime.fromisoformat(s) raises ValueError
fromisoformat_raises(s) == s.kind # "iso"

\* datetime.fromisoformat(s), for a text it accepts
fromisoformat(s) == DateTime(s.v)

\* d.isoformat()
isoformat(d) == IsoStr(d.v)

\* croniter(expr, t) raises ValueError (CroniterBadCronError)
croniter_raises(s) == s.kind # "cron" \/ s.v < 1 \/ s.v > 59

\* croniter(expr, t).get_next(datetime): the first minute that is a multiple
\* of m minutes and strictly after t
croniter_get_next(s, t) == DateTime(((t \div (60 * s.v)) + 1) * (60 * s.v))

\* Python truthiness of an Optional[str]
Truthy(s) == s.kind # "none"

(* ------------------------------ data types ----------------------------- *)

ScheduleTypes == {"cron", "interval", "once"}

TaskStatuses == {"pending", "running", "completed", "failed", "disabled"}

\* ScheduledTask(...) as create_task constructs it: the dataclass defaults
\* for the state fields, created_at and updated_at read from the clock.  The
\* three enums are str subclasses whose members equal their values, and a
\* task is written here as to_dict gives it, the enum fields as strings;
\* the record stands for the object and for its file.
ScheduledTask(task_id, schedule_type, schedule_value, t) ==
    [task_id        |-> task_id,
     schedule_type  |-> schedule_type,
     schedule_value |-> schedule_value,
     skill_type     |-> "discuss",
     status         |-> "pending",
     last_run       |-> None,
     next_run       |-> None,
     run_count      |-> 0,
     created_at     |-> IsoStr(t),
     updated_at     |-> IsoStr(t)]

\* TaskResult(...)
TaskResult(task_id, execution_id, started_at, completed_at, success, error) ==
    [task_id      |-> task_id,
     execution_id |-> execution_id,
     started_at   |-> isoformat(DateTime(started_at)),
     completed_at |-> isoformat(DateTime(completed_at)),
     success      |-> success,
     error        |-> error,
     duration_ms  |-> (completed_at - started_at) * 1000]

(* --------------------------- ScheduleCalculator ------------------------ *)

\* the CRON branch of calculate_next_run
calculate_next_run_cron(task, t) ==
    IF ~HAS_CRONITER
    THEN DateTime(((t + 86400) \div 86400) * 86400 + 9 * 3600)
    ELSE IF croniter_raises(task.schedule_value) THEN None
    ELSE croniter_get_next(task.schedule_value, t)

\* C5 mutant: the interval is not added to last_run
calculate_next_run_interval_DropsInterval(task, t) ==
    IF int_raises(task.schedule_value) THEN None
    ELSE IF Truthy(task.last_run)
         THEN IF fromisoformat_raises(task.last_run) THEN None
              ELSE fromisoformat(task.last_run)
         ELSE DateTime(t + int(task.schedule_value))

\* C9 mutant: a task that has never run is scheduled for now
calculate_next_run_interval_FiresAtOnce(task, t) ==
    IF int_raises(task.schedule_value) THEN None
    ELSE IF Truthy(task.last_run)
         THEN IF fromisoformat_raises(task.last_run) THEN None
              ELSE DateTime(fromisoformat(task.last_run).v + int(task.schedule_value))
         ELSE DateTime(t)

\* the INTERVAL branch of calculate_next_run
calculate_next_run_interval(task, t) ==
    IF int_raises(task.schedule_value) THEN None
    ELSE IF Truthy(task.last_run)
         THEN IF fromisoformat_raises(task.last_run) THEN None
              ELSE DateTime(fromisoformat(task.last_run).v + int(task.schedule_value))
         ELSE DateTime(t + int(task.schedule_value))

\* C13 mutant: a timestamp equal to the current time is still returned
calculate_next_run_once_NotStrict(task, t) ==
    IF fromisoformat_raises(task.schedule_value) THEN None
    ELSE IF fromisoformat(task.schedule_value).v >= t /\ task.run_count = 0
         THEN fromisoformat(task.schedule_value)
         ELSE None

\* C14 mutant: run_count is not looked at
calculate_next_run_once_IgnoresRunCount(task, t) ==
    IF fromisoformat_raises(task.schedule_value) THEN None
    ELSE IF fromisoformat(task.schedule_value).v > t
         THEN fromisoformat(task.schedule_value)
         ELSE None

\* the ONCE branch of calculate_next_run
calculate_next_run_once(task, t) ==
    IF fromisoformat_raises(task.schedule_value) THEN None
    ELSE IF fromisoformat(task.schedule_value).v > t /\ task.run_count = 0
         THEN fromisoformat(task.schedule_value)
         ELSE None

\* calculate_next_run(task), t being the datetime.utcnow() it reads
calculate_next_run(task, t) ==
    IF task.schedule_type = "cron" THEN calculate_next_run_cron(task, t)
    ELSE IF task.schedule_type = "interval" THEN calculate_next_run_interval(task, t)
    ELSE IF task.schedule_type = "once" THEN calculate_next_run_once(task, t)
    ELSE None

\* C2 mutant: the status is not looked at
is_due_IgnoresStatus(task) ==
    IF ~Truthy(task.next_run) THEN FALSE
    ELSE IF fromisoformat_raises(task.next_run) THEN FALSE
    ELSE now >= fromisoformat(task.next_run).v

\* C27 mutant: a task marked running is not due
is_due_SkipsRunning(task) ==
    IF task.status \in {"disabled", "running"} THEN FALSE
    ELSE IF ~Truthy(task.next_run) THEN FALSE
    ELSE IF fromisoformat_raises(task.next_run) THEN FALSE
    ELSE now >= fromisoformat(task.next_run).v

\* is_due(task), reading the clock
is_due(task) ==
    IF task.status = "disabled" THEN FALSE
    ELSE IF ~Truthy(task.next_run) THEN FALSE
    ELSE IF fromisoformat_raises(task.next_run) THEN FALSE
    ELSE now >= fromisoformat(task.next_run).v

(* ------------------------------- TaskStorage --------------------------- *)

\* save_task: stamps updated_at on the object and overwrites the file
save_task_stamp(task, t) == [task EXCEPT !.updated_at = IsoStr(t)]

\* the task files after save_task(task)
save_task(st, task) ==
    [id \in DOMAIN st \cup {task.task_id} |->
        IF id = task.task_id THEN task ELSE st[id]]

\* the task files after delete_task(task_id)
delete_task(st, task_id) == [id \in DOMAIN st \ {task_id} |-> st[id]]

\* load_task(task_id) finds a file
Exists(task_id) == task_id \in DOMAIN store

\* the result files after save_result(result): one file per
\* (task_id, execution_id), opened with "w"
save_result(rs, result) ==
    LET key == <<result.task_id, result.execution_id>>
    IN  [k \in DOMAIN rs \cup {key} |-> IF k = key THEN result ELSE rs[k]]

(* ------------------------------- TaskExecutor -------------------------- *)

\* what research_agent.execute_skill can do once awaited: return a
\* SkillResult with success True, return one with success False, or raise
SkillOutcomes == {"ok", "unsuccessful", "raise"}

\* SkillResult.error: None on success, a message otherwise
SkillError(outcome) ==
    IF outcome = "ok" THEN None ELSE [kind |-> "text", v |-> 1]

\* str(e) of the exception the skill call raised
ExcText == [kind |-> "text", v |-> 2]

\* execution_id: the hash of task_id and the clock's isoformat text, taken
\* as injective
ExecutionId(task_id, t) == <<task_id, t>>

\* execute_task up to its await: the object is marked running and saved
execute_task_begin(task, t) ==
    save_task_stamp([task EXCEPT !.status = "running"], t)

\* C24 mutant: without a next run the task is left pending
execute_task_returned_StaysPending(task, execution_id, started_at, skill_success, skill_error, t) ==
    LET result == TaskResult(task.task_id, execution_id, started_at, t,
                             skill_success, skill_error)
        t1 == [task EXCEPT !.status    = "pending",
                           !.last_run  = isoformat(DateTime(t)),
                           !.run_count = @ + 1,
                           !.next_run  = None]
        next_run == calculate_next_run(t1, t)
        t2 == IF next_run # None
              THEN [t1 EXCEPT !.next_run = isoformat(next_run)]
              ELSE t1
    IN  [task |-> save_task_stamp(t2, t), result |-> result]

\* the try block after the skill call has returned skill_success/skill_error
\* at time t: the task object as saved, and the TaskResult
execute_task_returned(task, execution_id, started_at, skill_success, skill_error, t) ==
    LET result == TaskResult(task.task_id, execution_id, started_at, t,
                             skill_success, skill_error)
        t1 == [task EXCEPT !.status    = "completed",
                           !.last_run  = isoformat(DateTime(t)),
                           !.run_count = @ + 1,
                           !.next_run  = None]
        next_run == calculate_next_run(t1, t)
        t2 == IF next_run # None
              THEN [t1 EXCEPT !.next_run = isoformat(next_run),
                              !.status   = "pending"]
              ELSE IF t1.schedule_type = "once"
                   THEN [t1 EXCEPT !.status = "completed"]
                   ELSE t1
    IN  [task |-> save_task_stamp(t2, t), result |-> result]

\* C4 mutant: the failed attempt is counted as a run
execute_task_raised_CountsRun(task, execution_id, started_at, t) ==
    LET result == TaskResult(task.task_id, execution_id, started_at, t,
                             FALSE, ExcText)
        t1 == [task EXCEPT !.status    = "failed",
                           !.last_run  = isoformat(DateTime(t)),
                           !.run_count = @ + 1]
    IN  [task |-> save_task_stamp(t1, t), result |-> result]

\* the except block, the skill call having raised at time t
execute_task_raised(task, execution_id, started_at, t) ==
    LET result == TaskResult(task.task_id, execution_id, started_at, t,
                             FALSE, ExcText)
        t1 == [task EXCEPT !.status   = "failed",
                           !.last_run = isoformat(DateTime(t))]
    IN  [task |-> save_task_stamp(t1, t), result |-> result]

\* execute_task from its await to its return
execute_task_end(task, execution_id, started_at, outcome, t) ==
    IF outcome = "raise"
    THEN execute_task_raised(task, execution_id, started_at, t)
    ELSE execute_task_returned(task, execution_id, started_at,
                               outcome = "ok", SkillError(outcome), t)

(* ------------------------------- TaskScheduler ------------------------- *)

\* the schedules create_task is called with: a well-formed and a malformed
\* value of each kind
ScheduleInputs ==
    { <<"interval", IntStr(POLL_INTERVAL_SECONDS)>>, <<"interval", Junk>>,
      <<"once", IsoStr(ClockStep)>>, <<"once", Junk>>,
      <<"cron", CronStr(1)>>, <<"cron", Junk>> }

\* the orders os.listdir can give the task files in
ListOrders(st) ==
    { s \in [1..Cardinality(DOMAIN st) -> DOMAIN st] :
        \A i, j \in DOMAIN s : i # j => s[i] # s[j] }

\* list_tasks() for one directory order
list_tasks(st, order) == [i \in DOMAIN order |-> st[order[i]]]

NoExecution == <<"", 0>>

LoopStopped == [pc |-> "stopped", snap |-> <<>>, execution_id |-> NoExecution,
                started_at |-> 0, wake |-> 0]

ManualIdle == [pc |-> "idle", snap |-> <<>>, execution_id |-> NoExecution,
               started_at |-> 0, wake |-> 0]

\* the for loop of _scheduler_loop, from the tasks it has not looked at
\* yet: the first of them that is due, and those after it
RECURSIVE SkipNotDue(_)
SkipNotDue(s) ==
    IF s = <<>> THEN <<>>
    ELSE IF is_due(Head(s)) THEN s
    ELSE SkipNotDue(Tail(s))

\* the loop running on from the tasks `s` until its next await: the skill
\* call of the first due task, or the sleep after the last task
LoopRunOn(s, st) ==
    LET due == SkipNotDue(s)
    IN  IF due = <<>>
        THEN [loop  |-> [pc |-> "sleep", snap |-> <<>>,
                         execution_id |-> NoExecution, started_at |-> 0,
                         wake |-> now + POLL_INTERVAL_SECONDS],
              store |-> st, began |-> 0]
        ELSE LET task == execute_task_begin(Head(due), now)
             IN  [loop  |-> [pc |-> "await", snap |-> <<task>> \o Tail(due),
                             execution_id |-> ExecutionId(task.task_id, now),
                             started_at |-> now, wake |-> 0],
                  store |-> save_task(st, task), began |-> 1]

\* the events so far: the clock's advances and the calls of execute_task
Events == (now \div ClockStep) + executions

Init ==
    /\ now = 0
    /\ store = <<>>
    /\ results = <<>>
    /\ running = FALSE
    /\ loop = LoopStopped
    /\ manual = [c \in Callers |-> ManualIdle]
    /\ executions = 0

\* time passes
Tick ==
    /\ Events < MaxEvents
    /\ now' = now + ClockStep
    /\ UNCHANGED <<store, results, running, loop, manual, executions>>

\* create_task(task_id, ..., schedule_type, schedule_value, ...)
create_task(task_id, schedule_type, schedule_value) ==
    LET t0 == ScheduledTask(task_id, schedule_type, schedule_value, now)
        next_run == calculate_next_run(t0, now)
        t1 == IF next_run # None
              THEN [t0 EXCEPT !.next_run = isoformat(next_run)]
              ELSE t0
        task == save_task_stamp(t1, now)
    IN  /\ store' = save_task(store, task)
        /\ UNCHANGED <<now, results, running, loop, manual, executions>>

\* C21 mutant: deleting a task also removes its result files
scheduler_delete_task_PurgesResults(task_id) ==
    /\ store' = IF Exists(task_id) THEN delete_task(store, task_id) ELSE store
    /\ results' = [k \in {k \in DOMAIN results : k[1] # task_id} |-> results[k]]
    /\ UNCHANGED <<now, running, loop, manual, executions>>

\* the value TaskScheduler.delete_task(task_id) returns
delete_task_returns(task_id) == Exists(task_id)

\* TaskScheduler.delete_task(task_id)
scheduler_delete_task(task_id) ==
    /\ store' = IF Exists(task_id) THEN delete_task(store, task_id) ELSE store
    /\ UNCHANGED <<now, results, running, loop, manual, executions>>

\* the object enable_task saves for a loaded task
enable_task_update(task, t) ==
    LET t1 == [task EXCEPT !.status = "pending"]
        next_run == calculate_next_run(t1, t)
        t2 == IF next_run # None
              THEN [t1 EXCEPT !.next_run = isoformat(next_run)]
              ELSE t1
    IN  save_task_stamp(t2, t)

\* enable_task(task_id)
enable_task(task_id) ==
    /\ store' = IF Exists(task_id)
                THEN save_task(store, enable_task_update(store[task_id], now))
                ELSE store
    /\ UNCHANGED <<now, results, running, loop, manual, executions>>

\* C11 mutant: disabling also clears next_run
disable_task_update_ClearsNextRun(task, t) ==
    save_task_stamp([task EXCEPT !.status = "disabled", !.next_run = None], t)

\* the object disable_task saves for a loaded task
disable_task_update(task, t) ==
    save_task_stamp([task EXCEPT !.status = "disabled"], t)

\* the value disable_task(task_id) returns
disable_task_returns(task_id) == Exists(task_id)

\* disable_task(task_id)
disable_task(task_id) ==
    /\ store' = IF Exists(task_id)
                THEN save_task(store, disable_task_update(store[task_id], now))
                ELSE store
    /\ UNCHANGED <<now, results, running, loop, manual, executions>>

\* C12 mutant: a task that is not due is not executed but made due, and left
\* to the poll loop
run_task_now_LeavesToLoop(c, task_id) ==
    /\ manual[c].pc = "idle"
    /\ IF Exists(task_id) /\ is_due(store[task_id])
       THEN LET task == execute_task_begin(store[task_id], now)
            IN  /\ Events < MaxEvents
                /\ executions' = executions + 1
                /\ manual' = [manual EXCEPT ![c] =
                       [pc |-> "await", snap |-> <<task>>,
                        execution_id |-> ExecutionId(task_id, now),
                        started_at |-> now, wake |-> 0]]
                /\ store' = save_task(store, task)
       ELSE /\ store' = IF Exists(task_id)
                        THEN save_task(store, save_task_stamp(
                                 [store[task_id] EXCEPT !.next_run = IsoStr(now)], now))
                        ELSE store
            /\ UNCHANGED <<manual, executions>>
    /\ UNCHANGED <<now, results, running, loop>>

\* run_task_now(task_id) up to its first await: returns None when no task
\* is stored, else enters execute_task with the loaded object
run_task_now(c, task_id) ==
    /\ manual[c].pc = "idle"
    /\ IF Exists(task_id)
       THEN LET task == execute_task_begin(store[task_id], now)
            IN  /\ Events < MaxEvents
                /\ executions' = executions + 1
                /\ manual' = [manual EXCEPT ![c] =
                       [pc |-> "await", snap |-> <<task>>,
                        execution_id |-> ExecutionId(task_id, now),
                        started_at |-> now, wake |-> 0]]
                /\ store' = save_task(store, task)
       ELSE UNCHANGED <<manual, store, executions>>
    /\ UNCHANGED <<now, results, running, loop>>

\* the skill call of run_task_now's execution ends and execute_task returns
run_task_now_end(c, outcome) ==
    /\ manual[c].pc = "await"
    /\ LET m == manual[c]
           pre == Head(m.snap)
           r == execute_task_end(pre, m.execution_id, m.started_at, outcome, now)
       IN  /\ store' = save_task(store, r.task)
           /\ results' = save_result(results, r.result)
    /\ manual' = [manual EXCEPT ![c] = ManualIdle]
    /\ UNCHANGED <<now, running, loop, executions>>

\* C16 mutant: start() does not look at self.running
start_Unguarded ==
    /\ running' = TRUE
    /\ loop' = [LoopStopped EXCEPT !.pc = "ready"]
    /\ UNCHANGED <<now, store, results, manual, executions>>

\* start()
start ==
    /\ IF running
       THEN UNCHANGED <<running, loop>>
       ELSE /\ running' = TRUE
            /\ loop' = [LoopStopped EXCEPT !.pc = "ready"]
    /\ UNCHANGED <<now, store, results, manual, executions>>

\* stop(): the loop's asyncio task is cancelled wherever it is waiting
stop ==
    /\ running' = FALSE
    /\ loop' = LoopStopped
    /\ UNCHANGED <<now, store, results, manual, executions>>

\* one pass of _scheduler_loop's while body, from list_tasks() to its first
\* await
scheduler_loop_cycle ==
    /\ running
    /\ \/ loop.pc = "ready"
       \/ loop.pc = "sleep" /\ now >= loop.wake
    /\ \E order \in ListOrders(store) :
         LET on == LoopRunOn(list_tasks(store, order), store)
         IN  /\ Events + on.began <= MaxEvents
             /\ executions' = executions + on.began
             /\ loop' = on.loop
             /\ store' = on.store
    /\ UNCHANGED <<now, results, running, manual>>

\* C18 mutant: the for loop looks again at the task it has just executed
\* before it moves on
scheduler_loop_execute_end_Retries(outcome) ==
    /\ loop.pc = "await"
    /\ LET pre == Head(loop.snap)
           r == execute_task_end(pre, loop.execution_id, loop.started_at,
                                 outcome, now)
           on == LoopRunOn(<<r.task>> \o Tail(loop.snap), save_task(store, r.task))
       IN  /\ Events + on.began <= MaxEvents
           /\ executions' = executions + on.began
           /\ loop' = on.loop
           /\ store' = on.store
           /\ results' = save_result(results, r.result)
    /\ UNCHANGED <<now, running, manual>>

\* the skill call of the loop's execution ends, execute_task returns and the
\* for loop runs on to its next await
scheduler_loop_execute_end(outcome) ==
    /\ loop.pc = "await"
    /\ LET pre == Head(loop.snap)
           r == execute_task_end(pre, loop.execution_id, loop.started_at,
                                 outcome, now)
           on == LoopRunOn(Tail(loop.snap), save_task(store, r.task))
       IN  /\ Events + on.began <= MaxEvents
           /\ executions' = executions + on.began
           /\ loop' = on.loop
           /\ store' = on.store
           /\ results' = save_result(results, r.result)
    /\ UNCHANGED <<now, running, manual>>

Next ==
    \/ Tick
    \/ \E task_id \in TaskIds, sch \in ScheduleInputs :
         create_task(task_id, sch[1], sch[2])
    \/ \E task_id \in TaskIds : scheduler_delete_task(task_id)
    \/ \E task_id \in TaskIds : enable_task(task_id)
    \/ \E task_id \in TaskIds : disable_task(task_id)
    \/ \E c \in Callers, task_id \in TaskIds : run_task_now(c, task_id)
    \/ \E c \in Callers, outcome \in SkillOutcomes : run_task_now_end(c, outcome)
    \/ start
    \/ stop
    \/ scheduler_loop_cycle
    \/ \E outcome \in SkillOutcomes : scheduler_loop_execute_end(outcome)

Spec == Init /\ [][Next]_vars

(* ------------- a poll cycle over two tasks, with write errors ---------- *)

\* the tasks of the two-task directory
CycleTaskIds == {"t1", "t2"}

\* the schedules its tasks are created with
CycleSchedules ==
    { <<"cron", CronStr(1)>>, <<"interval", IntStr(POLL_INTERVAL_SECONDS)>> }

\* the loop asleep after a cycle that ended at the current time
LoopAsleep == [pc |-> "sleep", snap |-> <<>>, execution_id |-> NoExecution,
               started_at |-> 0, wake |-> now + POLL_INTERVAL_SECONDS]

\* a pass of the while body in which save_task raises OSError when
\* execute_task writes the running marker of the first due task: the call is
\* outside execute_task's try, the loop's except Exception catches it, and
\* the loop sleeps
scheduler_loop_cycle_save_raises ==
    /\ running
    /\ \/ loop.pc = "ready"
       \/ loop.pc = "sleep" /\ now >= loop.wake
    /\ \E order \in ListOrders(store) :
         SkipNotDue(list_tasks(store, order)) # <<>>
    /\ Events < MaxEvents
    /\ executions' = executions + 1
    /\ loop' = LoopAsleep
    /\ UNCHANGED <<now, store, results, running, manual>>

\* the loop's execution ends, and save_task raises OSError when execute_task
\* writes the running marker of the next due task
scheduler_loop_execute_end_save_raises(outcome) ==
    /\ loop.pc = "await"
    /\ SkipNotDue(Tail(loop.snap)) # <<>>
    /\ LET pre == Head(loop.snap)
           r == execute_task_end(pre, loop.execution_id, loop.started_at,
                                 outcome, now)
       IN  /\ store' = save_task(store, r.task)
           /\ results' = save_result(results, r.result)
    /\ Events < MaxEvents
    /\ executions' = executions + 1
    /\ loop' = LoopAsleep
    /\ UNCHANGED <<now, running, manual>>

NextCycle ==
    \/ Tick
    \/ \E task_id \in CycleTaskIds, sch \in CycleSchedules :
         create_task(task_id, sch[1], sch[2])
    \/ start
    \/ scheduler_loop_cycle
    \/ \E outcome \in SkillOutcomes : scheduler_loop_execute_end(outcome)
    \/ scheduler_loop_cycle_save_raises
    \/ \E outcome \in SkillOutcomes : scheduler_loop_execute_end_save_raises(outcome)

SpecCycle == Init /\ [][NextCycle]_vars

(* ------------- two request handlers and the poll loop, one task -------- *)

\* the request handlers that call run_task_now at the same time
ConcurrentCallers == {"c1", "c2"}

\* the schedule the task is created with
ConcurrentSchedules == { <<"cron", CronStr(1)>> }

InitConcurrent ==
    /\ now = 0
    /\ store = <<>>
    /\ results = <<>>
    /\ running = FALSE
    /\ loop = LoopStopped
    /\ manual = [c \in ConcurrentCallers |-> ManualIdle]
    /\ executions = 0

NextConcurrent ==
    \/ Tick
    \/ \E task_id \in TaskIds, sch \in ConcurrentSchedules :
         create_task(task_id, sch[1], sch[2])
    \/ \E c \in ConcurrentCallers, task_id \in TaskIds : run_task_now(c, task_id)
    \/ \E c \in ConcurrentCallers, outcome \in SkillOutcomes :
         run_task_now_end(c, outcome)
    \/ start
    \/ scheduler_loop_cycle
    \/ \E outcome \in SkillOutcomes : scheduler_loop_execute_end(outcome)

SpecConcurrent == InitConcurrent /\ [][NextConcurrent]_vars

(* ------------- reading a directory that holds damaged files ------------ *)

\* the files of the directory read
StorageTaskIds == {"t1", "t2"}

\* what can be wrong with a task file: it is not JSON, it is a JSON object
\* without a required key, or one of its enum strings names no member
DamageKinds ==
    {"invalid_json", "missing_field", "unknown_schedule_type",
     "unknown_status", "unknown_skill_type"}

\* a task file that is damaged in the way `how`
Damaged(how) == [damaged |-> how]

IsDamaged(file) == "damaged" \in DOMAIN file

\* json.load(f) raises json.JSONDecodeError
json_load_raises(file) == IsDamaged(file) /\ file.damaged = "invalid_json"

\* ScheduledTask.from_dict(data) raises KeyError: data["task_id"], ["name"],
\* ... on a missing key
from_dict_raises_KeyError(file) ==
    IsDamaged(file) /\ file.damaged = "missing_field"

\* the values of SkillType's members
SkillTypes ==
    {"analyze_profile", "compare_compatibility", "forecast_period",
     "research_patterns", "explain_concept", "generate_report", "discuss"}

\* the values of the members of an enum class
EnumValues(cls) ==
    IF cls = "ScheduleType" THEN ScheduleTypes
    ELSE IF cls = "TaskStatus" THEN TaskStatuses
    ELSE SkillTypes

\* the member of the enum class cls whose value is `value`
Member(cls, value) == [enum |-> cls, value |-> value]

\* cls(value) raises ValueError
Enum_raises(cls, value) == value \notin EnumValues(cls)

\* ScheduledTask.from_dict(data) raises ValueError: ScheduleType(...),
\* SkillType(...) or TaskStatus(...) on a string that is no member's value
from_dict_raises_ValueError(file) ==
    IF IsDamaged(file)
    THEN file.damaged \in {"unknown_schedule_type", "unknown_status",
                           "unknown_skill_type"}
    ELSE \/ Enum_raises("ScheduleType", file.schedule_type)
         \/ Enum_raises("SkillType", file.skill_type)
         \/ Enum_raises("TaskStatus", file.status)

\* task.to_dict(): asdict, with the three enum fields replaced by .value
to_dict(task) ==
    [task EXCEPT !.schedule_type = @.value,
                 !.skill_type    = @.value,
                 !.status        = @.value]

\* C23 mutant: the stored status is not read, the dataclass default is kept
from_dict_ForgetsStatus(data) ==
    [data EXCEPT !.schedule_type = Member("ScheduleType", @),
                 !.skill_type    = Member("SkillType", @),
                 !.status        = Member("TaskStatus", "pending")]

\* ScheduledTask.from_dict(data), for data it does not raise on
from_dict(data) ==
    [data EXCEPT !.schedule_type = Member("ScheduleType", @),
                 !.skill_type    = Member("SkillType", @),
                 !.status        = Member("TaskStatus", @)]

\* reading a file is caught by `except (json.JSONDecodeError, KeyError)`
read_is_caught(file) == json_load_raises(file) \/ from_dict_raises_KeyError(file)

\* load_task(task_id) raises: the file exists and reading it raises what the
\* except clause does not name
load_task_raises(st, task_id) ==
    task_id \in DOMAIN st /\ from_dict_raises_ValueError(st[task_id])

\* what load_task(task_id) returns when it does not raise: <<>> for None,
\* else the task
load_task(st, task_id) ==
    IF task_id \notin DOMAIN st THEN <<>>
    ELSE IF read_is_caught(st[task_id]) THEN <<>>
    ELSE <<from_dict(st[task_id])>>

\* storage.list_tasks() raises for the directory order `order`
storage_list_tasks_raises(st, order) ==
    \E i \in DOMAIN order : from_dict_raises_ValueError(st[order[i]])

\* what storage.list_tasks() returns when it does not raise: the tasks of
\* the files it can read, in directory order
RECURSIVE storage_list_tasks(_, _)
storage_list_tasks(st, order) ==
    IF order = <<>> THEN <<>>
    ELSE IF read_is_caught(st[Head(order)])
         THEN storage_list_tasks(st, Tail(order))
         ELSE <<from_dict(st[Head(order)])>> \o storage_list_tasks(st, Tail(order))

\* what the file of task_id can hold: the task as save_task wrote it, or
\* damaged content
StorageFiles(task_id) ==
    {ScheduledTask(task_id, "interval", IntStr(POLL_INTERVAL_SECONDS), 0)}
        \cup {Damaged(how) : how \in DamageKinds}

\* the directories read: each file absent, intact or damaged
StorageDirs ==
    UNION { { dir \in [ids -> UNION {StorageFiles(id) : id \in ids}] :
                \A id \in ids : dir[id] \in StorageFiles(id) }
            : ids \in SUBSET StorageTaskIds }

\* a caller whose call has returned `value`
ManualReturned(value) == [ManualIdle EXCEPT !.pc = "returned", !.snap = value]

\* a caller whose call has raised
ManualRaised == [ManualIdle EXCEPT !.pc = "raised"]

InitStorage ==
    /\ now = 0
    /\ store \in StorageDirs
    /\ results = <<>>
    /\ running = FALSE
    /\ loop = LoopStopped
    /\ manual = [c \in Callers |-> ManualIdle]
    /\ executions = 0

\* TaskScheduler.get_task(task_id), called by c
get_task(c, task_id) ==
    /\ manual' = [manual EXCEPT ![c] =
           IF load_task_raises(store, task_id) THEN ManualRaised
           ELSE ManualReturned(load_task(store, task_id))]
    /\ UNCHANGED <<now, store, results, running, loop, executions>>

\* TaskScheduler.list_tasks(), called by c
scheduler_list_tasks(c) ==
    /\ \E order \in ListOrders(store) :
         manual' = [manual EXCEPT ![c] =
             IF storage_list_tasks_raises(store, order) THEN ManualRaised
             ELSE ManualReturned(storage_list_tasks(store, order))]
    /\ UNCHANGED <<now, store, results, running, loop, executions>>

NextStorage ==
    \/ \E c \in Callers, task_id \in StorageTaskIds : get_task(c, task_id)
    \/ \E c \in Callers : scheduler_list_tasks(c)

SpecStorage == InitStorage /\ [][NextStorage]_vars

(* ------------------ saving a task and loading it again ----------------- *)

\* the ScheduledTask objects saved: every schedule kind and status, two
\* skill types, with and without a last run
RoundTripTasks ==
    { [from_dict(ScheduledTask("t1", sch[1], sch[2], 0))
         EXCEPT !.status     = Member("TaskStatus", status),
                !.skill_type = Member("SkillType", skill_type),
                !.last_run   = last_run,
                !.next_run   = IF last_run = None THEN None
                               ELSE IsoStr(POLL_INTERVAL_SECONDS),
                !.run_count  = IF last_run = None THEN 0 ELSE 1]
      : sch \in {<<"cron", CronStr(1)>>, <<"interval", IntStr(POLL_INTERVAL_SECONDS)>>,
                 <<"once", IsoStr(ClockStep)>>},
        status \in TaskStatuses,
        skill_type \in {"discuss", "forecast_period"},
        last_run \in {None, IsoStr(0)} }

\* storage.save_task(task), called by c: the object gets its updated_at,
\* and its to_dict image is written; c holds the object afterwards
storage_save_task(c, task) ==
    LET stamped == save_task_stamp(task, now)
    IN  /\ store' = save_task(store, to_dict(stamped))
        /\ manual' = [manual EXCEPT ![c] = ManualReturned(<<stamped>>)]
        /\ UNCHANGED <<now, results, running, loop, executions>>

NextRoundTrip ==
    \/ Tick
    \/ \E c \in Callers, task \in RoundTripTasks : storage_save_task(c, task)
    \/ \E c \in Callers, task_id \in TaskIds : get_task(c, task_id)

SpecRoundTrip == Init /\ [][NextRoundTrip]_vars

(* ---------------------- reading the results directory ------------------ *)

\* the largest limit get_task_results is called with
MaxLimit == 2

\* the executions whose result files the directory can hold: two of t1 and
\* one of t2, named by task and start time
ResultKeys ==
    { <<"t1", ExecutionId("t1", 0)>>,
      <<"t1", ExecutionId("t1", POLL_INTERVAL_SECONDS)>>,
      <<"t2", ExecutionId("t2", 0)>> }

\* the result files execute_task can have written for the execution `key`:
\* it ended at the clock value it started at, or one or two advances later
ResultFiles(key) ==
    { TaskResult(key[1], key[2], key[2][2], key[2][2] + d, TRUE, None)
        : d \in {0, ClockStep, 2 * ClockStep} }

\* the results directories read
ResultDirs ==
    UNION { { dir \in [keys -> UNION {ResultFiles(k) : k \in keys}] :
                \A k \in keys : dir[k] \in ResultFiles(k) }
            : keys \in SUBSET ResultKeys }

\* the files whose name starts with result_<task>_, in directory order
RECURSIVE FilesOfTask(_, _, _)
FilesOfTask(rs, order, task_id) ==
    IF order = <<>> THEN <<>>
    ELSE IF Head(order)[1] = task_id
         THEN <<rs[Head(order)]>> \o FilesOfTask(rs, Tail(order), task_id)
         ELSE FilesOfTask(rs, Tail(order), task_id)

\* the text a is greater than the text b, for two isoformat texts: they
\* have one layout, so they compare as their instants do
str_gt(a, b) == a.v > b.v

\* x put into the sequence s, sorted by completed_at ascending, behind the
\* elements that are not newer than x
RECURSIVE InsertOldestFirst(_, _)
InsertOldestFirst(x, s) ==
    IF s = <<>> THEN <<x>>
    ELSE IF str_gt(Head(s).completed_at, x.completed_at)
         THEN <<x>> \o s
         ELSE <<Head(s)>> \o InsertOldestFirst(x, Tail(s))

\* x put into the sequence s, sorted by completed_at descending, behind the
\* elements that are not older than x
RECURSIVE InsertNewestFirst(_, _)
InsertNewestFirst(x, s) ==
    IF s = <<>> THEN <<x>>
    ELSE IF str_gt(x.completed_at, Head(s).completed_at)
         THEN <<x>> \o s
         ELSE <<Head(s)>> \o InsertNewestFirst(x, Tail(s))

\* C22 mutant: the sort without reverse=True
RECURSIVE SortOldestFirst(_)
SortOldestFirst(s) ==
    IF s = <<>> THEN <<>>
    ELSE InsertOldestFirst(s[Len(s)], SortOldestFirst(SubSeq(s, 1, Len(s) - 1)))

\* results.sort(key=lambda r: r.completed_at, reverse=True): a stable sort
RECURSIVE SortNewestFirst(_)
SortNewestFirst(s) ==
    IF s = <<>> THEN <<>>
    ELSE InsertNewestFirst(s[Len(s)], SortNewestFirst(SubSeq(s, 1, Len(s) - 1)))

\* s[:limit] for limit >= 0
SliceTo(s, limit) == SubSeq(s, 1, IF limit < Len(s) THEN limit ELSE Len(s))

\* get_task_results(task_id, limit) for one directory order
get_task_results(rs, order, task_id, limit) ==
    SliceTo(SortNewestFirst(FilesOfTask(rs, order, task_id)), limit)

InitResults ==
    /\ now = 0
    /\ store = <<>>
    /\ results \in ResultDirs
    /\ running = FALSE
    /\ loop = LoopStopped
    /\ manual = [c \in Callers |-> ManualIdle]
    /\ executions = 0

\* TaskScheduler.get_task_results(task_id, limit), called by c
scheduler_get_task_results(c, task_id, limit) ==
    /\ \E order \in ListOrders(results) :
         manual' = [manual EXCEPT ![c] =
             ManualReturned(get_task_results(results, order, task_id, limit))]
    /\ UNCHANGED <<now, store, results, running, loop, executions>>

NextResults ==
    \E c \in Callers, task_id \in {"t1", "t2"}, limit \in 0..MaxLimit :
        scheduler_get_task_results(c, task_id, limit)

SpecResults == InitResults /\ [][NextResults]_vars

(* ------------------------ what the claims speak of --------------------- *)

\* who can be inside execute_task: the poll loop and the run_task_now callers
Executors == Callers \cup {"loop"}

\* the execution `by` has in flight
InFlight(by) == IF by = "loop" THEN loop ELSE manual[by]

\* the step in which the skill call of `by`'s execution ends with `outcome`
\* and execute_task returns
execute_task_ends(by, outcome) ==
    IF by = "loop"
    THEN scheduler_loop_execute_end(outcome)
    ELSE run_task_now_end(by, outcome)

\* a step in which `by`'s execution stops being in flight
Returning(by) == InFlight(by).pc = "await" /\ InFlight(by)' # InFlight(by)

\* a step that changes the task files and nothing else
OnlyStoreChanges ==
    store' # store /\ UNCHANGED <<now, results, running, loop, manual, executions>>

\* the step is create_task(task_id, ...) with the schedule the stored task
\* has after it
create_task_called(task_id) ==
    /\ OnlyStoreChanges
    /\ task_id \in DOMAIN store'
    /\ create_task(task_id, store'[task_id].schedule_type,
                   store'[task_id].schedule_value)

\* the key of the result file execute_task writes for `by`'s execution, which
\* holds the TaskResult it returns
ResultKey(by) == <<Head(InFlight(by).snap).task_id, InFlight(by).execution_id>>

\* the text a next-run value is stored as
NextRunText(next_run) == IF next_run = None THEN None ELSE isoformat(next_run)

\* the schedule value is one calculate_next_run cannot parse
Malformed(schedule_type, schedule_value) ==
    \/ schedule_type = "cron" /\ croniter_raises(schedule_value)
    \/ schedule_type = "interval" /\ int_raises(schedule_value)
    \/ schedule_type = "once" /\ fromisoformat_raises(schedule_value)

\* every ScheduledTask object the program holds: the stored ones, the loop's
\* snapshot and the objects of the executions in flight
TaskObjects ==
    {store[id] : id \in DOMAIN store}
        \cup {loop.snap[i] : i \in DOMAIN loop.snap}
        \cup UNION {{manual[c].snap[i] : i \in DOMAIN manual[c].snap} : c \in Callers}

(* --------------------------------- claims ------------------------------ *)

\* C1 (as claimed): once a stored task has status disabled, every step that
\* is not enable_task, create_task or delete_task of it leaves it stored with
\* status disabled and not due, and is not the poll loop starting to execute
\* it.
C1_DisabledStaysDisabled ==
    [][\A id \in TaskIds :
         ( /\ Exists(id)
           /\ store[id].status = "disabled"
           /\ ~enable_task(id)
           /\ ~scheduler_delete_task(id)
           /\ ~create_task_called(id) )
         => /\ id \in DOMAIN store'
            /\ store'[id].status = "disabled"
            /\ ~(is_due(store[id]))'
            /\ ~( /\ loop'.pc = "await"
                  /\ Head(loop'.snap).task_id = id
                  /\ loop' # loop )]_vars

\* C2: in every reachable state, for every task object, is_due is true
\* exactly when the status is not disabled, next_run is present and the clock
\* has reached next_run.
C2_IsDueExact ==
    \A task \in TaskObjects :
        is_due(task) <=> ( /\ task.status # "disabled"
                           /\ task.next_run # None
                           /\ now >= task.next_run.v )

\* C2 witness: a stored disabled task whose next_run has passed and which is
\* not due.
C2_Witness ==
    \E id \in DOMAIN store :
        /\ store[id].status = "disabled"
        /\ store[id].next_run # None
        /\ now >= store[id].next_run.v
        /\ ~is_due(store[id])

\* C3 (as claimed): when the skill call returns success == false without
\* raising, the task is saved with status failed and the run_count it had,
\* and the returned TaskResult has success == false.
C3_UnsuccessfulFails ==
    [][\A by \in Executors :
         (Returning(by) /\ execute_task_ends(by, "unsuccessful"))
         => LET pre == Head(InFlight(by).snap)
            IN  /\ store'[pre.task_id].status = "failed"
                /\ store'[pre.task_id].run_count = pre.run_count
                /\ results'[ResultKey(by)].success = FALSE]_vars

\* C4: when the skill call raises, the returned TaskResult has success ==
\* false and the exception's message as error, and the task is saved with
\* status failed, last_run the completion time and the run_count of the
\* object execute_task was called with.
C4_RaisedExecution ==
    [][\A by \in Executors :
         (Returning(by) /\ execute_task_ends(by, "raise"))
         => LET pre == Head(InFlight(by).snap)
                ret == results'[ResultKey(by)]
                post == store'[pre.task_id]
            IN  /\ ret.success = FALSE
                /\ ret.error = ExcText
                /\ ret.completed_at = IsoStr(now)
                /\ post.status = "failed"
                /\ post.last_run = ret.completed_at
                /\ post.run_count = pre.run_count]_vars

\* C4 witness: a stored failed task whose last_run is the completion time of
\* a stored result that carries the exception's message.
C4_Witness ==
    \E id \in DOMAIN store, k \in DOMAIN results :
        /\ k[1] = id
        /\ results[k].error = ExcText
        /\ ~results[k].success
        /\ store[id].status = "failed"
        /\ store[id].last_run = results[k].completed_at

\* C5: when the skill call of an interval task with interval N succeeds, the
\* task is saved with run_count one more than the object had, status
\* pending, last_run the completion time and next_run == last_run + N.
C5_IntervalSuccess ==
    [][\A by \in Executors :
         ( /\ Returning(by)
           /\ Head(InFlight(by).snap).schedule_type = "interval"
           /\ ~int_raises(Head(InFlight(by).snap).schedule_value)
           /\ execute_task_ends(by, "ok") )
         => LET pre == Head(InFlight(by).snap)
                ret == results'[ResultKey(by)]
                post == store'[pre.task_id]
            IN  /\ ret.success
                /\ ret.completed_at = IsoStr(now)
                /\ post.run_count = pre.run_count + 1
                /\ post.status = "pending"
                /\ post.last_run = ret.completed_at
                /\ post.next_run = IsoStr(post.last_run.v + pre.schedule_value.v)]_vars

\* C5 witness: a stored interval task that has run, is pending again, and
\* whose next_run is one interval after the completion time of a successful
\* stored result.
C5_Witness ==
    \E id \in DOMAIN store, k \in DOMAIN results :
        /\ k[1] = id
        /\ results[k].success
        /\ store[id].schedule_type = "interval"
        /\ store[id].schedule_value.kind = "int"
        /\ store[id].run_count >= 1
        /\ store[id].status = "pending"
        /\ store[id].last_run = results[k].completed_at
        /\ store[id].next_run = IsoStr(store[id].last_run.v + store[id].schedule_value.v)

\* C6 (as claimed): when the execution of a cron or interval task fails (the
\* skill call raises or returns success == false), the task is saved with
\* the next_run the calculator gives for the new last_run, as after a
\* success.
C6_FailureRecomputesNextRun ==
    [][\A by \in Executors, outcome \in {"raise", "unsuccessful"} :
         ( /\ Returning(by)
           /\ Head(InFlight(by).snap).schedule_type \in {"cron", "interval"}
           /\ execute_task_ends(by, outcome) )
         => LET pre == Head(InFlight(by).snap)
                ran == [pre EXCEPT !.last_run = IsoStr(now)]
            IN  store'[pre.task_id].next_run
                    = NextRunText(calculate_next_run(ran, now))]_vars

\* C7 (as claimed): a stored once task with status failed is never due.
C7_FailedOnceNeverDue ==
    \A id \in DOMAIN store :
        (store[id].schedule_type = "once" /\ store[id].status = "failed")
        => ~is_due(store[id])

\* C8 (as claimed): create_task with a malformed schedule value leaves the
\* store as it was.
C8_MalformedNotPersisted ==
    [][\A id \in TaskIds, sch \in ScheduleInputs :
         (Malformed(sch[1], sch[2]) /\ create_task(id, sch[1], sch[2]))
         => store' = store]_vars

\* C9: create_task saves the task with status pending, run_count 0, last_run
\* null and the next_run the calculator gives at the time of the call; for an
\* interval N created at T that is T + N, and the task is not due at T.
C9_CreatedTask ==
    [][\A id \in TaskIds :
         create_task_called(id)
         => LET post == store'[id]
                fresh == ScheduledTask(id, post.schedule_type,
                                       post.schedule_value, now)
            IN  /\ post.status = "pending"
                /\ post.run_count = 0
                /\ post.last_run = None
                /\ post.next_run = NextRunText(calculate_next_run(fresh, now))
                /\ (post.schedule_type = "interval" /\ post.schedule_value.kind = "int")
                   => /\ post.next_run = IsoStr(now + post.schedule_value.v)
                      /\ (post.schedule_value.v > 0 => ~(is_due(store[id]))')]_vars

\* C9 witness: a stored interval task that has never run, is pending, and
\* whose next_run is one interval after the time it was saved.
C9_Witness ==
    \E id \in DOMAIN store :
        /\ store[id].schedule_type = "interval"
        /\ store[id].schedule_value.kind = "int"
        /\ store[id].status = "pending"
        /\ store[id].run_count = 0
        /\ store[id].last_run = None
        /\ store[id].next_run = IsoStr(store[id].updated_at.v + store[id].schedule_value.v)
        /\ ~is_due(store[id])

\* C10 (as claimed): enable_task on a stored task saves it with status
\* pending and with the next_run the calculator gives at the time of the
\* call, whatever next_run was; for an id with no stored task it leaves the
\* store as it was.
C10_EnableRecomputes ==
    [][\A id \in TaskIds :
         enable_task(id)
         => IF Exists(id)
            THEN LET pending == [store[id] EXCEPT !.status = "pending"]
                 IN  /\ store'[id].status = "pending"
                     /\ store'[id].next_run
                            = NextRunText(calculate_next_run(pending, now))
            ELSE store' = store]_vars

\* C11: disable_task on a stored task returns true and saves the task with
\* status disabled and a new updated_at, every other field as it was; for an
\* id with no stored task it returns false and leaves the store as it was.
C11_DisableFrame ==
    [][\A id \in TaskIds :
         disable_task(id)
         => IF Exists(id)
            THEN /\ disable_task_returns(id)
                 /\ DOMAIN store' = DOMAIN store
                 /\ store'[id] = [store[id] EXCEPT !.status = "disabled",
                                                   !.updated_at = IsoStr(now)]
                 /\ store'[id].next_run = store[id].next_run
                 /\ store'[id].last_run = store[id].last_run
                 /\ store'[id].run_count = store[id].run_count
                 /\ store'[id].schedule_type = store[id].schedule_type
                 /\ store'[id].schedule_value = store[id].schedule_value
            ELSE /\ ~disable_task_returns(id)
                 /\ store' = store]_vars

\* C11 witness: a stored disabled task that has run and still carries its
\* next_run and last_run.
C11_Witness ==
    \E id \in DOMAIN store :
        /\ store[id].status = "disabled"
        /\ store[id].run_count >= 1
        /\ store[id].next_run # None
        /\ store[id].last_run # None

\* C12: run_task_now on a stored task enters execute_task once with that
\* task, due or not, and the TaskResult of that attempt is the one saved when
\* it returns; for an id with no stored task nothing is executed or written.
C12_RunTaskNow ==
    [][\A c \in Callers :
         /\ \A id \in TaskIds :
              run_task_now(c, id)
              => IF Exists(id)
                 THEN /\ manual'[c].pc = "await"
                      /\ Head(manual'[c].snap).task_id = id
                      /\ manual'[c].execution_id = ExecutionId(id, now)
                      /\ executions' = executions + 1
                 ELSE UNCHANGED <<store, results, manual, executions>>
         /\ (Returning(c) /\ \E outcome \in SkillOutcomes : run_task_now_end(c, outcome))
            => /\ ResultKey(c) \in DOMAIN results'
               /\ results'[ResultKey(c)].execution_id = manual[c].execution_id
               /\ results'[ResultKey(c)].task_id = Head(manual[c].snap).task_id
               /\ manual'[c].pc = "idle"
               /\ executions' = executions]_vars

\* C12 witness: run_task_now has an execution in flight of a task that has no
\* next_run, so is not due.
C12_Witness ==
    \E c \in Callers :
        /\ manual[c].pc = "await"
        /\ Head(manual[c].snap).next_run = None
        /\ ~is_due(Head(manual[c].snap))

C15_RunCountMonotone ==
    [][\A id \in TaskIds :
         ( /\ Exists(id)
           /\ id \in DOMAIN store'
           /\ ~create_task_called(id) )
         => store'[id].run_count >= store[id].run_count]_vars

\* C16: start() while running leaves the poll loop as it is; start() while
\* not running finds no loop alive and creates one; and a loop is alive only
\* while running is set, so no second loop exists beside it.
C16_SingleLoop ==
    [][/\ (start /\ running) => loop' = loop
       /\ (start /\ ~running) => (loop.pc = "stopped" /\ loop'.pc = "ready")
       /\ loop'.pc # "stopped" => running']_vars

\* C16 witness: the scheduler is running with an execution of its loop in
\* flight, where start() changes nothing.
C16_Witness ==
    /\ running
    /\ loop.pc = "await"
    /\ ENABLED start

\* C17 (as claimed): stop() leaves the execution the poll loop has in flight
\* in flight.
C17_StopLetsExecutionFinish ==
    [][(stop /\ loop.pc = "await")
       => /\ loop'.pc = "await"
          /\ loop'.execution_id = loop.execution_id]_vars

\* the task ids of a sequence of task objects
SnapIds(snap) == [i \in DOMAIN snap |-> snap[i].task_id]

\* the sequence a is b without its first k elements, for some k
IsSuffix(a, b) ==
    \E k \in 0..Len(b) : a = [i \in 1..(Len(b) - k) |-> b[i + k]]

\* C18: the task ids of the loop's list are distinct; the first task a cycle
\* executes is the first due one in the order list_tasks gave; and after an
\* execution the loop goes on behind the task it executed, to the first of
\* the remaining tasks that is due, whether or not the executed task is
\* still due.
C18_OncePerCycle ==
    [][/\ \A i, j \in DOMAIN loop'.snap :
            i # j => loop'.snap[i].task_id # loop'.snap[j].task_id
       /\ (loop.pc \in {"ready", "sleep"} /\ loop'.pc = "await")
          => \E order \in ListOrders(store) :
               LET listed == list_tasks(store, order)
                   skipped == Len(listed) - Len(loop'.snap)
               IN  /\ IsSuffix(SnapIds(loop'.snap), order)
                   /\ \A i \in 1..skipped : ~is_due(listed[i])
                   /\ is_due(listed[skipped + 1])
       /\ (loop.pc = "await" /\ loop'.pc = "await" /\ loop' # loop)
          => LET rest == Tail(loop.snap)
                 skipped == Len(rest) - Len(loop'.snap)
             IN  /\ IsSuffix(SnapIds(loop'.snap), SnapIds(rest))
                 /\ skipped >= 0
                 /\ \A i \in 1..skipped : ~is_due(rest[i])
                 /\ is_due(rest[skipped + 1])
                 /\ Tail(loop'.snap) = [i \in 1..(Len(loop'.snap) - 1) |->
                                           rest[i + skipped + 1]]]_vars

\* C18 witness: the loop is executing a task while another task, which it
\* executed earlier in this cycle and which failed, is still due.
C18_Witness ==
    /\ loop.pc = "await"
    /\ loop.started_at = now
    /\ \E id \in DOMAIN store :
         /\ id # Head(loop.snap).task_id
         /\ store[id].status = "failed"
         /\ store[id].last_run = IsoStr(now)
         /\ is_due(store[id])

\* C19 (as claimed): the loop ends a cycle leaving at most the one task
\* whose processing raised unexecuted: when it goes to sleep from the start
\* of a cycle at most one stored task is due, and when it goes to sleep
\* after an execution at most one of the tasks it had left is due.
C19_ErrorsIsolated ==
    [][/\ (loop.pc \in {"ready", "sleep"} /\ loop'.pc = "sleep" /\ loop' # loop)
          => Cardinality({id \in DOMAIN store : is_due(store[id])}) <= 1
       /\ (loop.pc = "await" /\ loop'.pc = "sleep")
          => Cardinality({i \in DOMAIN Tail(loop.snap) :
                             is_due(Tail(loop.snap)[i])}) <= 1]_vars

\* C20 (as claimed): no call of get_task or list_tasks on a directory with
\* damaged files raises.
C20_MalformedDegrades ==
    \A c \in Callers : manual[c].pc # "raised"

\* C21: delete_task returns true exactly when a task file for the id was
\* stored; after it load_task finds nothing for the id; and the result files
\* are what they were.
C21_DeleteFrame ==
    [][\A id \in TaskIds :
         scheduler_delete_task(id)
         => /\ delete_task_returns(id) <=> id \in DOMAIN store
            /\ id \notin DOMAIN store'
            /\ ~load_task_raises(store', id)
            /\ load_task(store', id) = <<>>
            /\ results' = results]_vars

\* C21 witness: no task is stored for an id that has stored results.
C21_Witness ==
    \E k \in DOMAIN results : k[1] \notin DOMAIN store

\* C24: when the skill call succeeds, the task is saved with last_run the
\* completion time and run_count one more than the object had; with the
\* next_run the calculator gives for that object and status pending if it
\* gives one, and with next_run null and status completed if not.
C24_SuccessfulExecution ==
    [][\A by \in Executors :
         (Returning(by) /\ execute_task_ends(by, "ok"))
         => LET pre == Head(InFlight(by).snap)
                post == store'[pre.task_id]
                ran == [pre EXCEPT !.last_run = IsoStr(now),
                                   !.run_count = @ + 1,
                                   !.next_run = None]
                next_run == calculate_next_run(ran, now)
            IN  /\ results'[ResultKey(by)].success
                /\ post.last_run = IsoStr(now)
                /\ post.run_count = pre.run_count + 1
                /\ IF next_run # None
                   THEN post.status = "pending" /\ post.next_run = isoformat(next_run)
                   ELSE post.status = "completed" /\ post.next_run = None]_vars

\* C24 witness: a stored task whose last attempt succeeded and for which
\* the calculator gave no next run: it is completed and has no next_run.
C24_Witness ==
    \E id \in DOMAIN store, k \in DOMAIN results :
        /\ k[1] = id
        /\ results[k].success
        /\ store[id].last_run = results[k].completed_at
        /\ store[id].run_count >= 1
        /\ store[id].status = "completed"
        /\ store[id].next_run = None

\* C26 (as claimed): the result file an ending execution writes is a new
\* one, and two executions in flight have different execution_ids.
C26_OneNewResultPerAttempt ==
    [][/\ \A by \in Executors :
            (Returning(by) /\ \E outcome \in SkillOutcomes : execute_task_ends(by, outcome))
            => /\ ResultKey(by) \notin DOMAIN results
               /\ Cardinality(DOMAIN results') = Cardinality(DOMAIN results) + 1
       /\ \A a, b \in Executors :
            (a # b /\ InFlight(a)'.pc = "await" /\ InFlight(b)'.pc = "await")
            => InFlight(a)'.execution_id # InFlight(b)'.execution_id]_vars

\* C28 (as claimed): a task that is not stored stays not stored in every
\* step that is not create_task of it.
C28_DeletedStaysDeleted ==
    [][\A id \in TaskIds :
         (id \notin DOMAIN store /\ ~create_task_called(id))
         => id \notin DOMAIN store']_vars

\* C29 (as claimed): a stored task has status running only while an
\* execution of it is in flight.
C29_RunningIsTransient ==
    \A id \in DOMAIN store :
        store[id].status = "running"
        => \E by \in Executors :
             /\ InFlight(by).pc = "await"
             /\ Head(InFlight(by).snap).task_id = id

\* C25 (as claimed): every call of execute_task either is suspended in its
\* skill call or has returned a TaskResult; none ends by raising.
C25_ExecuteTaskNeverRaises ==
    [][executions' = executions + 1
       => \E by \in Executors :
            /\ InFlight(by)'.pc = "await"
            /\ InFlight(by)' # InFlight(by)]_vars

\* C30 (as claimed): while the scheduler is running, a task that a poll
\* cycle lists as due is executed in that cycle: after the step that lists
\* it, and after every later step of the cycle, it is the task in execution
\* or is still in the loop's list behind it.
C30_DueTaskExecutedInCycle ==
    [][/\ \A id \in DOMAIN store :
            ( /\ running
              /\ loop.pc \in {"ready", "sleep"}
              /\ loop' # loop
              /\ loop'.pc \in {"sleep", "await"}
              /\ is_due(store[id]) )
            => /\ loop'.pc = "await"
               /\ \E i \in DOMAIN loop'.snap : loop'.snap[i].task_id = id
       /\ (loop.pc = "await" /\ loop' # loop /\ loop'.pc \in {"sleep", "await"})
          => \A i \in DOMAIN Tail(loop.snap) :
               is_due(Tail(loop.snap)[i])
               => /\ loop'.pc = "await"
                  /\ \E j \in DOMAIN loop'.snap :
                       loop'.snap[j].task_id = Tail(loop.snap)[i].task_id]_vars

\* C27: nothing looks at a stored status of running before an execution
\* starts: run_task_now on a stored task enters execute_task whatever the
\* status is, and a task that is marked running and whose next_run has come
\* is due for the poll loop.
C27_NoMutualExclusion ==
    [][/\ \A c \in DOMAIN manual, id \in TaskIds :
            (run_task_now(c, id) /\ Exists(id))
            => /\ manual'[c].pc = "await"
               /\ Head(manual'[c].snap).task_id = id
       /\ \A id \in DOMAIN store :
            ( /\ store[id].status = "running"
              /\ store[id].next_run # None
              /\ now >= store[id].next_run.v )
            => is_due(store[id])]_vars

\* C27 witness: two run_task_now calls have an execution of the same task in
\* flight at once, the second begun while the stored status was running.
C27_Witness ==
    \E a, b \in DOMAIN manual :
        /\ a # b
        /\ manual[a].pc = "await"
        /\ manual[b].pc = "await"
        /\ Head(manual[a].snap).task_id = Head(manual[b].snap).task_id
        /\ store[Head(manual[a].snap).task_id].status = "running"

\* C22: what get_task_results(task_id, limit) returns, for every directory
\* order and every limit >= 0: stored results of that task only, none of
\* them twice, ordered by completed_at from newest to oldest, min(limit,
\* number stored) of them, and none of those left out is newer than one
\* returned.
C22_ResultsNewestFirst ==
    [][\A c \in Callers, id \in {"t1", "t2"}, limit \in 0..MaxLimit :
         scheduler_get_task_results(c, id, limit)
         => LET ret == manual'[c].snap
                of_task == {k \in DOMAIN results : k[1] = id}
                stored == Cardinality(of_task)
            IN  /\ \A i \in DOMAIN ret :
                     /\ ret[i].task_id = id
                     /\ \E k \in of_task : results[k] = ret[i]
                /\ \A i, j \in DOMAIN ret : i # j => ret[i] # ret[j]
                /\ \A i, j \in DOMAIN ret :
                     i < j => ~str_gt(ret[j].completed_at, ret[i].completed_at)
                /\ Len(ret) = IF limit < stored THEN limit ELSE stored
                /\ \A k \in of_task :
                     (\A i \in DOMAIN ret : ret[i] # results[k])
                     => \A i \in DOMAIN ret :
                          ~str_gt(results[k].completed_at, ret[i].completed_at)]_vars

\* C22 witness: a call returned one result of a task that has two stored,
\* the newer one, while another task has results stored too.
C22_Witness ==
    \E c \in Callers :
        /\ manual[c].pc = "returned"
        /\ Len(manual[c].snap) = 1
        /\ \E k \in DOMAIN results :
             /\ k[1] = manual[c].snap[1].task_id
             /\ str_gt(manual[c].snap[1].completed_at, results[k].completed_at)
        /\ \E k \in DOMAIN results : k[1] # manual[c].snap[1].task_id

\* C23: after save_task(t) the file of t.task_id holds the three enum
\* fields as the members' string values, and load_task(t.task_id) does not
\* raise and returns a task equal to t, as t is after the call, in every
\* field.
C23_SaveLoadRoundTrip ==
    [][\A c \in Callers, t \in RoundTripTasks :
         storage_save_task(c, t)
         => LET saved == manual'[c].snap[1]
                file == store'[t.task_id]
            IN  /\ file.schedule_type = t.schedule_type.value
                /\ file.status = t.status.value
                /\ file.skill_type = t.skill_type.value
                /\ file.schedule_type \in ScheduleTypes
                /\ file.status \in TaskStatuses
                /\ file.skill_type \in SkillTypes
                /\ ~load_task_raises(store', t.task_id)
                /\ load_task(store', t.task_id) = <<saved>>
                /\ saved = [t EXCEPT !.updated_at = IsoStr(now)]]_vars

\* C23 witness: a caller has loaded a disabled once task from a file that
\* holds "disabled" and "once", written after the clock had advanced.
C23_Witness ==
    \E c \in Callers, id \in DOMAIN store :
        /\ manual[c].pc = "returned"
        /\ manual[c].snap = load_task(store, id)
        /\ manual[c].snap # <<>>
        /\ manual[c].snap[1].status = Member("TaskStatus", "disabled")
        /\ manual[c].snap[1].schedule_type = Member("ScheduleType", "once")
        /\ store[id].status = "disabled"
        /\ store[id].updated_at # store[id].created_at

====
